---- MODULE Spec2Model ----
(***************************************************************************)
(* Verification model of kyaml/kio (ByteReader, LocalPackageReader,        *)
(* LocalPackageReadWriter) and kyaml/yaml value filters.                   *)
(*                                                                         *)
(* Strings that the code takes apart or builds (paths, decimal indices,    *)
(* scalar values) are sequences: a path is the sequence of its components, *)
(* a decimal number the sequence of its digits, a scalar the sequence of   *)
(* its characters.  The empty Go string is the empty sequence.             *)
(***************************************************************************)
EXTENDS Integers, Sequences, FiniteSets, TLC

\* ------------------------------------------------------------------------
\* Bounds
\* ------------------------------------------------------------------------
MaxSegs == 3
LongLen == 13
MaxCalls == 3
MaxValueLen == 4
MaxMatchLen == 2
MaxSetterLen == 3
MaxApplications == 2

\* ------------------------------------------------------------------------
\* Constants of the program
\* ------------------------------------------------------------------------
ResourceListKind == "ResourceList"
ResourceListApiVersion == "kyaml.kustomize.dev/v1alpha1"
ListKind == "List"
IndexAnnotation == "kyaml.kustomize.dev/kio/index"
PathAnnotation == "kyaml.kustomize.dev/kio/path"
PackageAnnotation == "kyaml.kustomize.dev/kio/package"

EmptyMap == [k \in {} |-> <<>>]
NoFunctionConfig == "nil"

\* ------------------------------------------------------------------------
\* State
\* ------------------------------------------------------------------------
VARIABLES
    values,     \* ByteReader.Read: the input split on "\n---\n"
    i,          \* ByteReader.Read: position of the loop over values
    index,      \* ByteReader.Read: the running index
    output,     \* ByteReader.Read: the ResourceNodeSlice built so far
    r,          \* the ByteReader
    pc,         \* "loop" while Read iterates, "done" once it has returned
    err,        \* the error Read returned
    fs,         \* the file system: absolute path of a file |-> its segments
    rw,         \* the LocalPackageReadWriter (files: the tracked file set)
    operand,    \* what LocalPackageReader.Read returned: [done, nodes, err]
    held,       \* what LocalPackageReadWriter.Read returned: [done, nodes, err]
    wpc,        \* LocalPackageReadWriter.Write: "idle" or "remove" (in the loop)
    werr,       \* the error the last Write returned
    nodes,      \* the argument of the current or last Write
    newFiles,   \* Write: the new file set
    deleteFiles,\* Write: the files the removal loop has still to go through
    before,     \* the files that existed when the current Write began
    lastOp,     \* the last operation of the read-writer that returned
    calls,      \* the number of calls of Read and Write on the read-writer
    object,     \* the scalar a filter is applied to: object.value.Value
    s,          \* the filter, the receiver of Filter
    input,      \* the value of the scalar before the filter
    ret,        \* what Filter returned: [done, node, err]
    applied     \* the value of the scalar after each call of Filter so far

bvars == <<values, i, index, output, r, pc, err>>
pvars == <<fs, rw, operand, held, wpc, werr, nodes, newFiles, deleteFiles, before, lastOp, calls>>
fvars == <<object, s, input, ret, applied>>
vars == <<bvars, pvars, fvars>>

\* ------------------------------------------------------------------------
\* fmt.Sprintf("%d", index)
\* ------------------------------------------------------------------------
Digit(d) == <<"0", "1", "2", "3", "4", "5", "6", "7", "8", "9">>[d + 1]

RECURSIVE Sprintf_d(_)
Sprintf_d(n) ==
    IF n < 10 THEN <<Digit(n)>> ELSE Sprintf_d(n \div 10) \o <<Digit(n % 10)>>

\* the number a decimal string stands for
DigitValue(c) == CHOOSE d \in 0..9 : Digit(d) = c

RECURSIVE DecimalValue(_)
DecimalValue(str) ==
    IF Len(str) = 1 THEN DigitValue(str[1])
    ELSE 10 * DecimalValue(SubSeq(str, 1, Len(str) - 1)) + DigitValue(str[Len(str)])

\* ------------------------------------------------------------------------
\* Documents.  A segment of the input is the text between two separators.
\* type "eof": nothing to decode; "null": an empty document; "bad": text the
\* decoder rejects; "doc": a document.
\* ------------------------------------------------------------------------
Item(body, ann) ==
    [type |-> "doc", kind |-> "ConfigMap", apiVersion |-> "v1",
     hasItems |-> FALSE, items |-> <<>>, hasFC |-> FALSE, fc |-> NoFunctionConfig,
     annotations |-> ann, body |-> body]

Doc(kind, apiVersion, body, ann) ==
    [type |-> "doc", kind |-> kind, apiVersion |-> apiVersion,
     hasItems |-> FALSE, items |-> <<>>, hasFC |-> FALSE, fc |-> NoFunctionConfig,
     annotations |-> ann, body |-> body]

Envelope(kind, apiVersion, body, items, hasFC, fc) ==
    [type |-> "doc", kind |-> kind, apiVersion |-> apiVersion,
     hasItems |-> TRUE, items |-> items, hasFC |-> hasFC, fc |-> fc,
     annotations |-> EmptyMap, body |-> body]

NotADoc(type) ==
    [type |-> type, kind |-> "", apiVersion |-> "",
     hasItems |-> FALSE, items |-> <<>>, hasFC |-> FALSE, fc |-> NoFunctionConfig,
     annotations |-> EmptyMap, body |-> type]

ItemBodies == {"x", "y"}
ItemX == Item("x", EmptyMap)
ItemY == Item("y", (IndexAnnotation :> <<"5">>))

SegmentPool ==
    { NotADoc("eof"), NotADoc("null"), NotADoc("bad"),
      Doc("ConfigMap", "v1", "a", EmptyMap),
      Doc("", "", "b", (IndexAnnotation :> <<"7">>)),
      Doc(ListKind, "v1", "l", EmptyMap),
      Envelope(ResourceListKind, ResourceListApiVersion, "e1", <<ItemX, ItemY>>, TRUE, "fc1"),
      Envelope(ListKind, "v1", "e2", <<ItemY>>, FALSE, NoFunctionConfig),
      Envelope(ResourceListKind, "v1", "e3", <<>>, TRUE, "fc3") }

Streams == UNION { [1..n -> SegmentPool] : n \in 0..MaxSegs }

LongStream ==
    [k \in 1..LongLen |->
        IF k % 5 = 0 THEN NotADoc("null") ELSE Doc("ConfigMap", "v1", "a", EmptyMap)]

\* ------------------------------------------------------------------------
\* yaml.SetAnnotation(k, v) piped over a node
\* ------------------------------------------------------------------------
SetAnnotation(node, k, v) ==
    [node EXCEPT !.annotations = (k :> v) @@ @]

\* ByteReader.decode: the decoded node, the error and the reader, whose
\* SetAnnotations map decode updates.  The loop over the sorted keys sets
\* each key of SetAnnotations on the node; the keys are distinct, so the
\* node ends with SetAnnotations laid over its own annotations.
decode(rd, idx, seg) ==
    IF seg.type = "eof" THEN [node |-> seg, isNil |-> TRUE, err |-> "EOF", r |-> rd]
    ELSE IF seg.type = "bad" THEN [node |-> seg, isNil |-> TRUE, err |-> "error", r |-> rd]
    ELSE IF seg.type = "null" THEN [node |-> seg, isNil |-> TRUE, err |-> "nil", r |-> rd]
    ELSE
        LET sa == IF rd.OmitReaderAnnotations
                  THEN rd.SetAnnotations
                  ELSE (IndexAnnotation :> Sprintf_d(idx)) @@ rd.SetAnnotations
        IN [node |-> [seg EXCEPT !.annotations = sa @@ @],
            isNil |-> FALSE, err |-> "nil",
            r |-> [rd EXCEPT !.SetAnnotations = sa]]

\* The test of ByteReader.Read for a wrapping list
IsWrappingList_anyKindField(node) ==
    node.kind = ResourceListKind \/ node.kind = ListKind

IsWrappingList(node) ==
    (node.kind = ResourceListKind \/ node.kind = ListKind) /\ node.hasItems

\* One iteration of the loop of ByteReader.Read over values[i].
\* st is [index, output, r, err, returned].
Iterate_envelopeTakesIndex(st, seg) ==
    LET d == decode(st.r, st.index, seg) IN
    IF d.err = "EOF" THEN [st EXCEPT !.r = d.r]
    ELSE IF d.err # "nil"
    THEN [st EXCEPT !.r = d.r, !.output = <<>>, !.err = d.err, !.returned = TRUE]
    ELSE IF d.isNil THEN [st EXCEPT !.r = d.r]
    ELSE IF IsWrappingList(d.node)
    THEN [st EXCEPT
            !.r = [d.r EXCEPT !.WrappingKind = d.node.kind,
                              !.WrappingApiVersion = d.node.apiVersion,
                              !.FunctionConfig =
                                  IF d.node.hasFC THEN d.node.fc ELSE @],
            !.output = @ \o d.node.items,
            !.index = @ + 1]
    ELSE [st EXCEPT !.r = d.r,
                    !.output = Append(@, d.node),
                    !.index = @ + 1]

Iterate(st, seg) ==
    LET d == decode(st.r, st.index, seg) IN
    IF d.err = "EOF" THEN [st EXCEPT !.r = d.r]
    ELSE IF d.err # "nil"
    THEN [st EXCEPT !.r = d.r, !.output = <<>>, !.err = d.err, !.returned = TRUE]
    ELSE IF d.isNil THEN [st EXCEPT !.r = d.r]
    ELSE IF IsWrappingList(d.node)
    THEN [st EXCEPT
            !.r = [d.r EXCEPT !.WrappingKind = d.node.kind,
                              !.WrappingApiVersion = d.node.apiVersion,
                              !.FunctionConfig =
                                  IF d.node.hasFC THEN d.node.fc ELSE @],
            !.output = @ \o d.node.items]
    ELSE [st EXCEPT !.r = d.r,
                    !.output = Append(@, d.node),
                    !.index = @ + 1]

NewByteReader(omit, setAnnotations) ==
    [OmitReaderAnnotations |-> omit, SetAnnotations |-> setAnnotations,
     FunctionConfig |-> NoFunctionConfig,
     WrappingApiVersion |-> "", WrappingKind |-> ""]

\* ------------------------------------------------------------------------
\* ByteReader.Read as a whole: the loop run over all the segments
\* ------------------------------------------------------------------------
RECURSIVE ReadAll(_, _)
ReadAll(st, segs) ==
    IF segs = <<>> \/ st.returned THEN st
    ELSE ReadAll(Iterate(st, Head(segs)), Tail(segs))

ByteReader_Read(rd, segs) ==
    ReadAll([index |-> 0, output |-> <<>>, r |-> rd,
             err |-> "nil", returned |-> FALSE], segs)

\* ------------------------------------------------------------------------
\* The file system.  A path is the sequence of its components; the package
\* directory is Root, with the directories Dirs below it.
\* ------------------------------------------------------------------------
Root == <<"pkg">>
Sub == Root \o <<"sub">>
Deep == Sub \o <<"deep">>
Dirs == {Root, Sub, Deep}
Kptfile == "Kptfile"

\* the names of the model in the lexical order filepath.Walk visits them
NameOrder ==
    <<"Kptfile", "a.yaml", "b.yaml", "c.yaml", "deep", "e.yaml", "notes.txt", "sub">>

Ext(name) ==
    IF name \in {"a.yaml", "b.yaml", "c.yaml", "e.yaml"} THEN "yaml"
    ELSE IF name = "notes.txt" THEN "txt"
    ELSE ""

\* filepath.Match for the patterns "*.yaml", "*.yml" and "*"
Match(g, name) ==
    \/ g = "*"
    \/ g = "*.yaml" /\ Ext(name) = "yaml"
    \/ g = "*.yml" /\ Ext(name) = "yml"

defaultMatch == <<"*.yaml", "*.yml">>

Base(path) == path[Len(path)]

\* filepath.Dir of a relative path
Dir(path) == IF Len(path) <= 1 THEN <<".">> ELSE SubSeq(path, 1, Len(path) - 1)

\* filepath.Rel(base, path) for a path below base
Rel(base, path) == SubSeq(path, Len(base) + 1, Len(path))

\* filepath.Join
Join(base, path) == base \o path

IsDir(path) == path \in Dirs

Exists(tree, path) == path \in DOMAIN tree \/ IsDir(path)

\* the directory listing of filepath.Walk, sorted
Entries(tree, dir) ==
    LET IsEntry(name) == Exists(tree, dir \o <<name>>)
    IN SelectSeq(NameOrder, IsEntry)

\* ------------------------------------------------------------------------
\* LocalPackageReader
\* ------------------------------------------------------------------------
\* LocalPackageReader.shouldSkipDir: TRUE for filepath.SkipDir
shouldSkipDir_ignoreInclude(rdr, tree, path) ==
    IF rdr.PackageFileName = "" THEN FALSE
    ELSE IF ~Exists(tree, Join(path, <<rdr.PackageFileName>>)) THEN FALSE
    ELSE TRUE

shouldSkipDir(rdr, tree, path) ==
    IF rdr.PackageFileName = "" THEN FALSE
    ELSE IF ~Exists(tree, Join(path, <<rdr.PackageFileName>>)) THEN FALSE
    ELSE IF ~rdr.IncludeSubpackages THEN TRUE
    ELSE FALSE

\* LocalPackageReader.shouldSkipFile: TRUE when the file is in scope
shouldSkipFile(rdr, path) ==
    \E k \in 1..Len(rdr.MatchFilesGlob) : Match(rdr.MatchFilesGlob[k], Base(path))

\* LocalPackageReader.initReaderAnnotations
initReaderAnnotations(rdr, sa, path) ==
    IF rdr.OmitReaderAnnotations THEN sa
    ELSE (PackageAnnotation :> Dir(path)) @@ (PathAnnotation :> path) @@ sa

\* LocalPackageReader.readFile
readFile(rdr, sa, tree, path) ==
    ByteReader_Read(NewByteReader(rdr.OmitReaderAnnotations, sa), tree[path])

\* The callback of filepath.Walk on a file.  st is [operand, sa, err].
VisitFile(rdr, tree, st, path) ==
    IF ~shouldSkipFile(rdr, path) THEN st
    ELSE LET rel == Rel(rdr.PackagePath, path)
             sa1 == initReaderAnnotations(rdr, st.sa, rel)
             res == readFile(rdr, sa1, tree, Join(rdr.PackagePath, rel))
         IN IF res.err # "nil"
            THEN [st EXCEPT !.sa = res.r.SetAnnotations, !.err = res.err]
            ELSE [st EXCEPT !.sa = res.r.SetAnnotations,
                            !.operand = @ \o res.output]

\* filepath.Walk from path: the callback on path, then, for a directory the
\* callback did not skip, the entries in lexical order; an error ends the walk.
RECURSIVE Walk(_, _, _, _)
RECURSIVE WalkEntries(_, _, _, _, _)
WalkEntries(rdr, tree, st, dir, names) ==
    IF names = <<>> \/ st.err # "nil" THEN st
    ELSE WalkEntries(rdr, tree,
                     Walk(rdr, tree, st, dir \o <<Head(names)>>),
                     dir, Tail(names))

Walk(rdr, tree, st, path) ==
    IF IsDir(path)
    THEN IF path # rdr.PackagePath /\ shouldSkipDir(rdr, tree, path)
         THEN st
         ELSE WalkEntries(rdr, tree, st, path, Entries(tree, path))
    ELSE VisitFile(rdr, tree, st, path)

\* LocalPackageReader.Read
LocalPackageReader_Read(rdr0, tree) ==
    IF rdr0.PackagePath = <<>>
    THEN [done |-> TRUE, nodes |-> <<>>, err |-> "must specify package path"]
    ELSE LET rdr == IF Len(rdr0.MatchFilesGlob) = 0
                    THEN [rdr0 EXCEPT !.MatchFilesGlob = defaultMatch]
                    ELSE rdr0
             st == Walk(rdr, tree,
                        [operand |-> <<>>, sa |-> rdr.SetAnnotations, err |-> "nil"],
                        rdr.PackagePath)
         IN [done |-> TRUE, nodes |-> st.operand, err |-> st.err]

\* ------------------------------------------------------------------------
\* LocalPackageReadWriter
\* ------------------------------------------------------------------------
\* kioutil.GetFileAnnotations: the path annotation ("" when there is none);
\* an error for a node whose metadata cannot be read
GetFileAnnotations(n) ==
    IF n.type # "doc" THEN [path |-> <<>>, err |-> "error"]
    ELSE IF PathAnnotation \in DOMAIN n.annotations
         THEN [path |-> n.annotations[PathAnnotation], err |-> "nil"]
         ELSE [path |-> <<>>, err |-> "nil"]

\* LocalPackageReadWriter.getFiles
getFiles(ns) ==
    IF \E k \in 1..Len(ns) : GetFileAnnotations(ns[k]).err # "nil"
    THEN [val |-> {}, err |-> "error"]
    ELSE [val |-> { GetFileAnnotations(ns[k]).path : k \in 1..Len(ns) }, err |-> "nil"]

\* the LocalPackageReader that LocalPackageReadWriter.Read builds
ReaderOfReadWriter(w) ==
    [PackagePath |-> w.PackagePath,
     PackageFileName |-> "",
     MatchFilesGlob |-> w.MatchFilesGlob,
     IncludeSubpackages |-> w.IncludeSubpackages,
     OmitReaderAnnotations |-> FALSE,
     SetAnnotations |-> w.SetAnnotations]

\* LocalPackageReadWriter.Read: the result and the tracked file set
LocalPackageReadWriter_Read(w, tree) ==
    LET res == LocalPackageReader_Read(ReaderOfReadWriter(w), tree) IN
    IF res.err # "nil"
    THEN [ret |-> [done |-> TRUE, nodes |-> <<>>, err |-> res.err], files |-> w.files]
    ELSE IF ~w.NoDeleteFiles
         THEN LET f == getFiles(res.nodes) IN
              IF f.err # "nil"
              THEN [ret |-> [done |-> TRUE, nodes |-> <<>>, err |-> f.err],
                    files |-> {}]
              ELSE [ret |-> res, files |-> f.val]
         ELSE [ret |-> res, files |-> w.files]

\* a LocalPackageReader with the settings of the read-writer
ReaderLike(w) ==
    [PackagePath |-> w.PackagePath,
     PackageFileName |-> w.PackageFileName,
     MatchFilesGlob |-> w.MatchFilesGlob,
     IncludeSubpackages |-> w.IncludeSubpackages,
     OmitReaderAnnotations |-> w.OmitReaderAnnotations,
     SetAnnotations |-> w.SetAnnotations]

\* requiredResourcePackageAnnotations
requiredResourcePackageAnnotations == {IndexAnnotation, PathAnnotation}

ReaderAnnotations == {IndexAnnotation, PathAnnotation, PackageAnnotation}

\* LocalPackageWriter.Write: one file per distinct path annotation, holding
\* the documents of that path in index order without the reader annotations;
\* it fails when a node lacks a required annotation, and on an I/O error
\* (ioOK false) after having written the files of partial.
WrittenFile(w, ns, p) ==
    LET HasPath(n) == n.annotations[PathAnnotation] = p
        ByIndex(a, b) == DecimalValue(a.annotations[IndexAnnotation])
                            < DecimalValue(b.annotations[IndexAnnotation])
        sorted == SortSeq(SelectSeq(ns, HasPath), ByIndex)
        Clear(n) == IF w.KeepReaderAnnotations THEN n
                    ELSE [n EXCEPT !.annotations =
                            [k \in DOMAIN @ \ ReaderAnnotations |-> @[k]]]
    IN [k \in 1..Len(sorted) |-> Clear(sorted[k])]

LocalPackageWriter_Write(w, tree, ns, ioOK, partial) ==
    IF \E k \in 1..Len(ns) :
          ~(requiredResourcePackageAnnotations \subseteq DOMAIN ns[k].annotations)
    THEN [fs |-> tree, err |-> "error"]
    ELSE LET paths == { ns[k].annotations[PathAnnotation] : k \in 1..Len(ns) }
             done == IF ioOK THEN paths ELSE partial \cap paths
             written == { Join(w.PackagePath, p) : p \in done }
         IN [fs |-> [f \in DOMAIN tree \cup written |->
                        IF f \in written
                        THEN WrittenFile(w, ns, Rel(w.PackagePath, f))
                        ELSE tree[f]],
             err |-> IF ioOK THEN "nil" ELSE "error"]

\* r.files.Difference(newFiles)
Difference_nothingKept(files, new) == files

Difference(files, new) == files \ new

\* LocalPackageReadWriter.Write up to its removal loop: the file system, the
\* error ("nil" when the loop is entered) and the files to delete
WriteFiles_writerErrorIgnored(w, tree, ns, ioOK, partial) ==
    LET f == getFiles(ns) IN
    IF f.err # "nil"
    THEN [fs |-> tree, err |-> "getFiles", newFiles |-> {}, deleteFiles |-> {}]
    ELSE LET res == LocalPackageWriter_Write(w, tree, ns, ioOK, partial) IN
         [fs |-> res.fs, err |-> "nil", newFiles |-> f.val,
          deleteFiles |-> Difference(w.files, f.val)]

WriteFiles(w, tree, ns, ioOK, partial) ==
    LET f == getFiles(ns) IN
    IF f.err # "nil"
    THEN [fs |-> tree, err |-> "getFiles", newFiles |-> {}, deleteFiles |-> {}]
    ELSE LET res == LocalPackageWriter_Write(w, tree, ns, ioOK, partial) IN
         IF res.err # "nil"
         THEN [fs |-> res.fs, err |-> "write", newFiles |-> f.val, deleteFiles |-> {}]
         ELSE [fs |-> res.fs, err |-> "nil", newFiles |-> f.val,
               deleteFiles |-> Difference(w.files, f.val)]

\* os.Remove: TRUE when the file can be removed.  A path that is not there
\* cannot; nor can a directory that is not empty, and Root holds Sub.
CanRemove(tree, path) == path \in DOMAIN tree

Remove(tree, path) == [f \in DOMAIN tree \ {path} |-> tree[f]]

\* ------------------------------------------------------------------------
\* Inputs: directory trees, read-writers, and what a caller passes to Write
\* ------------------------------------------------------------------------
FileA == Root \o <<"a.yaml">>
FileN == Root \o <<"notes.txt">>
FileC == Sub \o <<"c.yaml">>
FileE == Deep \o <<"e.yaml">>
FileCands == {FileA, FileN, FileC, FileE}
Marker(d) == d \o <<Kptfile>>

MarkerBody(p) == IF p = Marker(Root) THEN "k0" ELSE IF p = Marker(Sub) THEN "k1" ELSE "k2"

ContentsA == { <<Doc("ConfigMap", "v1", "a", EmptyMap), NotADoc("null"),
                Doc("Service", "v1", "b", (IndexAnnotation :> <<"7">>))>> }
ContentsN == { <<Doc("Note", "v1", "n", EmptyMap)>> }
ContentsC == { <<Doc("ConfigMap", "v1", "c", EmptyMap)>>,
               <<Envelope(ListKind, "v1", "e2", <<ItemX, ItemY>>, FALSE, NoFunctionConfig)>> }
ContentsE == { <<Doc("ConfigMap", "v1", "e", EmptyMap)>>,
               <<NotADoc("bad")>> }

AllPaths == FileCands \cup { Marker(d) : d \in Dirs }

Contents ==
    { [p \in AllPaths |->
          IF p = FileA THEN ca
          ELSE IF p = FileN THEN cn
          ELSE IF p = FileC THEN cc
          ELSE IF p = FileE THEN ce
          ELSE <<Doc("Kptfile", "v1", MarkerBody(p), EmptyMap)>>] :
      ca \in ContentsA, cn \in ContentsN, cc \in ContentsC, ce \in ContentsE }

Restrict(f, S) == [p \in S |-> f[p]]

Trees ==
    { Restrict(c, { Marker(d) : d \in M } \cup F) :
        c \in Contents, M \in SUBSET Dirs, F \in SUBSET FileCands }

SyncTrees ==
    { Restrict(c, {FileA} \cup F) : c \in Contents, F \in SUBSET {FileN, FileC, FileE} }

NewReadWriter(path, fileName, glob, include, omit, noDelete) ==
    [PackagePath |-> path, PackageFileName |-> fileName, MatchFilesGlob |-> glob,
     IncludeSubpackages |-> include, OmitReaderAnnotations |-> omit,
     SetAnnotations |-> EmptyMap, KeepReaderAnnotations |-> FALSE,
     NoDeleteFiles |-> noDelete, files |-> {}]

NotRead == [done |-> FALSE, nodes |-> <<>>, err |-> "nil"]

\* a node whose metadata cannot be read
ScalarNode == [Item("s", EmptyMap) EXCEPT !.type = "scalar"]

RepathTargets == { <<"a.yaml">>, <<"b.yaml">>, <<"sub", "c.yaml">> }

Keep(ns, K) ==
    [j \in 1..Cardinality(K) |->
        ns[CHOOSE k \in K : Cardinality({m \in K : m < k}) = j - 1]]

Repath(ns, j, p) ==
    [ns EXCEPT ![j] = SetAnnotation(@, PathAnnotation, p)]

Strip(ns, j) == [ns EXCEPT ![j].annotations = EmptyMap]

\* what a caller can do to the nodes it read before writing them: drop some,
\* move one to another file, strip one of its annotations, or add a node
\* that is not a resource
WriteInputs(ns) ==
    { Keep(ns, K) : K \in SUBSET (1..Len(ns)) }
    \cup { Repath(ns, j, p) : j \in 1..Len(ns), p \in RepathTargets }
    \cup { Strip(ns, j) : j \in 1..Len(ns) }
    \cup { Append(ns, ScalarNode) }

\* ------------------------------------------------------------------------
\* ValueReplacer
\* ------------------------------------------------------------------------
HasPrefix(str, prefix) ==
    Len(prefix) <= Len(str) /\ SubSeq(str, 1, Len(prefix)) = prefix

\* strings.Index: the offset of the first instance of old in str, -1 if none
StringsIndex(str, old) ==
    LET offs == { j \in 0..(Len(str) - Len(old)) :
                    HasPrefix(SubSeq(str, j + 1, Len(str)), old) }
    IN IF offs = {} THEN -1 ELSE CHOOSE j \in offs : \A k \in offs : j <= k

\* strings.Count: the number of non-overlapping instances of old in str
RECURSIVE StringsCount(_, _)
StringsCount(str, old) ==
    LET j == StringsIndex(str, old) IN
    IF j < 0 THEN 0
    ELSE 1 + StringsCount(SubSeq(str, j + Len(old) + 1, Len(str)), old)

\* the loop of strings.Replace, n replacements from offset start on
RECURSIVE ReplaceLoop(_, _, _, _, _)
ReplaceLoop(str, old, new, n, start) ==
    IF n = 0 THEN SubSeq(str, start + 1, Len(str))
    ELSE LET j == start + StringsIndex(SubSeq(str, start + 1, Len(str)), old) IN
         SubSeq(str, start + 1, j) \o new
            \o ReplaceLoop(str, old, new, n - 1, j + Len(old))

\* strings.Replace for a non-empty old
StringsReplace(str, old, new, n) ==
    IF old = new \/ n = 0 THEN str
    ELSE LET m == StringsCount(str, old) IN
         IF m = 0 THEN str
         ELSE ReplaceLoop(str, old, new, IF n < 0 \/ m < n THEN m ELSE n, 0)

\* regexp.Compile, for the patterns of the model: a run of literal
\* characters compiles, an open parenthesis alone does not
Compiles(re) == \A k \in 1..Len(re) : re[k] # "("

\* Regexp.ReplaceAllString for a pattern of literal characters and a
\* replacement without "$"
ReplaceAllString(re, str, repl) == StringsReplace(str, re, repl, -1)

\* ValueReplacer.Filter: the scalar's value after it and what it returns
ValueReplacer_Filter_zeroCountKept(vr, v) ==
    IF vr.StringMatch # <<>>
    THEN [value |-> StringsReplace(v, vr.StringMatch, vr.Replace, vr.Count),
          node |-> "object", err |-> "nil"]
    ELSE IF vr.RegexMatch # <<>>
    THEN IF ~Compiles(vr.RegexMatch)
         THEN [value |-> v, node |-> "nil",
               err |-> "ValueReplacer RegexMatch does not compile"]
         ELSE [value |-> ReplaceAllString(vr.RegexMatch, v, vr.Replace),
               node |-> "object", err |-> "nil"]
    ELSE [value |-> v, node |-> "nil",
          err |-> "ValueReplacer missing StringMatch and RegexMatch"]

ValueReplacer_Filter(vr, v) ==
    LET count == IF vr.Count = 0 THEN -1 ELSE vr.Count IN
    IF vr.StringMatch # <<>>
    THEN [value |-> StringsReplace(v, vr.StringMatch, vr.Replace, count),
          node |-> "object", err |-> "nil"]
    ELSE IF vr.RegexMatch # <<>>
    THEN IF ~Compiles(vr.RegexMatch)
         THEN [value |-> v, node |-> "nil",
               err |-> "ValueReplacer RegexMatch does not compile"]
         ELSE [value |-> ReplaceAllString(vr.RegexMatch, v, vr.Replace),
               node |-> "object", err |-> "nil"]
    ELSE [value |-> v, node |-> "nil",
          err |-> "ValueReplacer missing StringMatch and RegexMatch"]

\* ------------------------------------------------------------------------
\* PrefixSetter and SuffixSetter
\* ------------------------------------------------------------------------
HasSuffix(str, suffix) ==
    Len(suffix) <= Len(str)
        /\ SubSeq(str, Len(str) - Len(suffix) + 1, Len(str)) = suffix

\* PrefixSetter.Filter: the scalar's value after it and what it returns
PrefixSetter_Filter_alwaysPrepends(ps, v) ==
    [value |-> ps.Value \o v, node |-> "object", err |-> "nil"]

PrefixSetter_Filter(ps, v) ==
    [value |-> IF ~HasPrefix(v, ps.Value) THEN ps.Value \o v ELSE v,
     node |-> "object", err |-> "nil"]

\* SuffixSetter.Filter: the scalar's value after it and what it returns
SuffixSetter_Filter(ss, v) ==
    [value |-> IF ~HasSuffix(v, ss.Value) THEN v \o ss.Value ELSE v,
     node |-> "object", err |-> "nil"]

\* ------------------------------------------------------------------------
\* The inputs of the filters
\* ------------------------------------------------------------------------
StringsUpTo(alphabet, n) == UNION { [1..k -> alphabet] : k \in 0..n }

Values == StringsUpTo({"a", "b"}, MaxValueLen)
Matches == StringsUpTo({"a", "b"}, MaxMatchLen)
Regexes == { <<>>, <<"a">>, <<"(">> }
Replacements == { <<>>, <<"a">>, <<"c">>, <<"c", "a">> }
Counts == -1..2
SetterValues == StringsUpTo({"a", "b"}, MaxSetterLen)

NotFiltered == [done |-> FALSE, node |-> "nil", err |-> "nil"]

FiltersAtRest ==
    /\ object = <<>> /\ input = <<>> /\ ret = NotFiltered /\ applied = <<>>
    /\ s = [StringMatch |-> <<>>, RegexMatch |-> <<>>, Replace |-> <<>>, Count |-> 0]

\* ------------------------------------------------------------------------
\* The byte reader and the package side at rest
\* ------------------------------------------------------------------------
BytesAtRest ==
    /\ values = <<>> /\ i = 1 /\ index = 0 /\ output = <<>>
    /\ r = NewByteReader(FALSE, EmptyMap) /\ pc = "done" /\ err = "nil"

PackageAtRest ==
    /\ fs = Restrict(CHOOSE c \in Contents : TRUE, {})
    /\ rw = NewReadWriter(Root, "", <<>>, FALSE, FALSE, FALSE)
    /\ operand = NotRead /\ held = NotRead
    /\ wpc = "idle" /\ werr = "nil" /\ nodes = <<>>
    /\ newFiles = {} /\ deleteFiles = {} /\ before = {} /\ lastOp = "none"
    /\ calls = 0

\* ------------------------------------------------------------------------
\* The package reader and read-writer
\* ------------------------------------------------------------------------
InitWalk ==
    /\ BytesAtRest
    /\ FiltersAtRest
    /\ fs \in Trees
    /\ rw \in { NewReadWriter(path, fileName, glob, include, omit, FALSE) :
                  path \in {Root, <<>>}, fileName \in {"", Kptfile},
                  glob \in {<<>>, <<"*">>}, include \in BOOLEAN, omit \in BOOLEAN }
    /\ operand = NotRead /\ held = NotRead
    /\ wpc = "idle" /\ werr = "nil" /\ nodes = <<>>
    /\ newFiles = {} /\ deleteFiles = {} /\ before = {} /\ lastOp = "none"
    /\ calls = 0

InitSync ==
    /\ BytesAtRest
    /\ FiltersAtRest
    /\ fs \in SyncTrees
    /\ rw = NewReadWriter(Root, "", <<>>, FALSE, FALSE, FALSE)
    /\ operand = NotRead /\ held = NotRead
    /\ wpc = "idle" /\ werr = "nil" /\ nodes = <<>>
    /\ newFiles = {} /\ deleteFiles = {} /\ before = {} /\ lastOp = "none"
    /\ calls = 0

InitPackage ==
    /\ BytesAtRest
    /\ FiltersAtRest
    /\ fs \in SyncTrees
    /\ rw \in { NewReadWriter(Root, "", <<>>, FALSE, FALSE, noDelete) :
                  noDelete \in BOOLEAN }
    /\ operand = NotRead /\ held = NotRead
    /\ wpc = "idle" /\ werr = "nil" /\ nodes = <<>>
    /\ newFiles = {} /\ deleteFiles = {} /\ before = {} /\ lastOp = "none"
    /\ calls = 0

\* LocalPackageReader.Read, by a reader with the settings of rw
ReaderRead ==
    /\ wpc = "idle"
    /\ operand' = LocalPackageReader_Read(ReaderLike(rw), fs)
    /\ UNCHANGED <<bvars, fvars, fs, rw, held, wpc, werr, nodes, newFiles, deleteFiles,
                   before, lastOp, calls>>

\* LocalPackageReadWriter.Read
RWRead ==
    /\ wpc = "idle"
    /\ calls < MaxCalls
    /\ calls' = calls + 1
    /\ LET res == LocalPackageReadWriter_Read(rw, fs) IN
        /\ held' = res.ret
        /\ rw' = [rw EXCEPT !.files = res.files]
    /\ lastOp' = "Read"
    /\ UNCHANGED <<bvars, fvars, fs, operand, wpc, werr, nodes, newFiles, deleteFiles, before>>

\* LocalPackageReadWriter.Write, up to the removal loop
WriteStart ==
    /\ wpc = "idle"
    /\ calls < MaxCalls
    /\ calls' = calls + 1
    /\ \E ns \in WriteInputs(held.nodes), ioOK \in BOOLEAN :
       \E partial \in (IF ioOK THEN {{}} ELSE SUBSET getFiles(ns).val) :
        LET res == WriteFiles(rw, fs, ns, ioOK, partial) IN
        /\ fs' = res.fs
        /\ werr' = res.err
        /\ IF res.err = "nil"
           THEN /\ wpc' = "remove"
                /\ nodes' = ns
                /\ before' = DOMAIN fs
                /\ newFiles' = res.newFiles
                /\ deleteFiles' = res.deleteFiles
                /\ UNCHANGED lastOp
           ELSE /\ wpc' = "idle"
                /\ lastOp' = "Write"
                /\ UNCHANGED <<nodes, before, newFiles, deleteFiles>>
    /\ UNCHANGED <<bvars, fvars, rw, operand, held>>

\* one iteration of the removal loop; a map is ranged over in any order
RemoveNext ==
    /\ wpc = "remove"
    /\ \E f \in deleteFiles, ok \in BOOLEAN :
        LET path == Join(rw.PackagePath, f) IN
        IF ok /\ CanRemove(fs, path)
        THEN /\ fs' = Remove(fs, path)
             /\ deleteFiles' = deleteFiles \ {f}
             /\ UNCHANGED <<wpc, werr, lastOp, nodes, newFiles, before>>
        ELSE /\ wpc' = "idle"
             /\ werr' = "remove"
             /\ lastOp' = "Write"
             /\ nodes' = <<>> /\ newFiles' = {} /\ deleteFiles' = {} /\ before' = {}
             /\ UNCHANGED fs
    /\ UNCHANGED <<bvars, fvars, rw, operand, held, calls>>

\* the removal loop is over: Write returns nil
WriteReturn ==
    /\ wpc = "remove"
    /\ deleteFiles = {}
    /\ wpc' = "idle"
    /\ werr' = "nil"
    /\ lastOp' = "Write"
    /\ nodes' = <<>> /\ newFiles' = {} /\ before' = {}
    /\ UNCHANGED <<bvars, fvars, fs, rw, operand, held, deleteFiles, calls>>

\* the caller sets the exported field NoDeleteFiles
SetNoDeleteFiles ==
    /\ wpc = "idle"
    /\ \E b \in BOOLEAN :
        /\ b # rw.NoDeleteFiles
        /\ rw' = [rw EXCEPT !.NoDeleteFiles = b]
    /\ UNCHANGED <<bvars, fvars, fs, operand, held, wpc, werr, nodes, newFiles,
                   deleteFiles, before, lastOp, calls>>

NextWalk == ReaderRead \/ RWRead

SpecWalk == InitWalk /\ [][NextWalk]_vars

NextSync == RWRead \/ WriteStart \/ RemoveNext \/ WriteReturn

SpecSync == InitSync /\ [][NextSync]_vars

NextPackage == NextSync \/ SetNoDeleteFiles

SpecPackage == InitPackage /\ [][NextPackage]_vars

\* ------------------------------------------------------------------------
\* ByteReader.Read, one loop iteration per step
\* ------------------------------------------------------------------------
InitBytes ==
    /\ values \in Streams \cup {LongStream}
    /\ i = 1
    /\ index = 0
    /\ output = <<>>
    /\ r \in { NewByteReader(omit, EmptyMap) : omit \in BOOLEAN }
    /\ pc = "loop"
    /\ err = "nil"
    /\ PackageAtRest
    /\ FiltersAtRest

ReadIterate ==
    /\ pc = "loop"
    /\ i <= Len(values)
    /\ LET st == Iterate([index |-> index, output |-> output, r |-> r,
                          err |-> "nil", returned |-> FALSE], values[i])
       IN /\ index' = st.index
          /\ output' = st.output
          /\ r' = st.r
          /\ err' = st.err
          /\ pc' = IF st.returned THEN "done" ELSE "loop"
    /\ i' = i + 1
    /\ UNCHANGED <<values, pvars, fvars>>

ReadReturn ==
    /\ pc = "loop"
    /\ i > Len(values)
    /\ pc' = "done"
    /\ UNCHANGED <<values, i, index, output, r, err, pvars, fvars>>

NextBytes == ReadIterate \/ ReadReturn

SpecBytes == InitBytes /\ [][NextBytes]_vars

\* ------------------------------------------------------------------------
\* ValueReplacer.Filter applied to a scalar
\* ------------------------------------------------------------------------
InitFilter ==
    /\ BytesAtRest
    /\ PackageAtRest
    /\ object \in Values
    /\ input = object
    /\ s \in [StringMatch : Matches, RegexMatch : Regexes,
              Replace : Replacements, Count : Counts]
    /\ ret = NotFiltered
    /\ applied = <<>>

ValueReplacerFilter ==
    /\ ~ret.done
    /\ LET res == ValueReplacer_Filter(s, object) IN
        /\ object' = res.value
        /\ ret' = [done |-> TRUE, node |-> res.node, err |-> res.err]
        /\ applied' = Append(applied, res.value)
    /\ UNCHANGED <<bvars, pvars, s, input>>

NextFilter == ValueReplacerFilter

SpecFilter == InitFilter /\ [][NextFilter]_vars

\* ------------------------------------------------------------------------
\* PrefixSetter.Filter and SuffixSetter.Filter applied to a scalar, again
\* and again with the same configured value
\* ------------------------------------------------------------------------
InitSetter ==
    /\ BytesAtRest
    /\ PackageAtRest
    /\ object \in Values
    /\ input = object
    /\ s \in [Kind : {"PrefixSetter", "SuffixSetter"}, Value : SetterValues]
    /\ ret = NotFiltered
    /\ applied = <<>>

PrefixSetterFilter ==
    /\ s.Kind = "PrefixSetter"
    /\ Len(applied) < MaxApplications
    /\ LET res == PrefixSetter_Filter(s, object) IN
        /\ object' = res.value
        /\ ret' = [done |-> TRUE, node |-> res.node, err |-> res.err]
        /\ applied' = Append(applied, res.value)
    /\ UNCHANGED <<bvars, pvars, s, input>>

SuffixSetterFilter ==
    /\ s.Kind = "SuffixSetter"
    /\ Len(applied) < MaxApplications
    /\ LET res == SuffixSetter_Filter(s, object) IN
        /\ object' = res.value
        /\ ret' = [done |-> TRUE, node |-> res.node, err |-> res.err]
        /\ applied' = Append(applied, res.value)
    /\ UNCHANGED <<bvars, pvars, s, input>>

NextSetter == PrefixSetterFilter \/ SuffixSetterFilter

SpecSetter == InitSetter /\ [][NextSetter]_vars

\* ------------------------------------------------------------------------
\* Properties of ByteReader.Read
\* ------------------------------------------------------------------------
IsEnvelopeSeg(seg) ==
    seg.type = "doc" /\ seg.kind \in {"ResourceList", "List"} /\ seg.hasItems

IsGenuineSeg(seg) == seg.type = "doc" /\ ~IsEnvelopeSeg(seg)

IsGenuineNode(n) == n.body \notin ItemBodies

\* the segments the loop has gone through
SegsRead == SubSeq(values, 1, i - 1)

GenuineRead == SelectSeq(SegsRead, IsGenuineSeg)

GenuineOut == SelectSeq(output, IsGenuineNode)

IsDecimalOf(str, n) ==
    /\ Len(str) >= 1
    /\ Len(str) > 1 => str[1] # "0"
    /\ DecimalValue(str) = n

\* C1: with reader annotations on, the k-th genuine document read so far is
\* the k-th genuine node of the output and carries the index annotation
\* whose value is the decimal string of k-1.
C1_DenseIndex ==
    (~r.OmitReaderAnnotations /\ err = "nil") =>
        /\ Len(GenuineOut) = Len(GenuineRead)
        /\ \A k \in 1..Len(GenuineOut) :
            /\ GenuineOut[k].body = GenuineRead[k].body
            /\ IndexAnnotation \in DOMAIN GenuineOut[k].annotations
            /\ IsDecimalOf(GenuineOut[k].annotations[IndexAnnotation], k - 1)

C1_Witness ==
    /\ pc = "done" /\ err = "nil" /\ ~r.OmitReaderAnnotations
    /\ Len(GenuineOut) >= 2
    /\ \E j \in 2..(Len(values) - 1) :
        /\ IsEnvelopeSeg(values[j]) \/ values[j].type \in {"null", "eof"}
        /\ IsGenuineSeg(values[j - 1]) /\ IsGenuineSeg(values[j + 1])

C1_WitnessTwoDigits ==
    /\ pc = "done" /\ err = "nil" /\ ~r.OmitReaderAnnotations
    /\ Len(GenuineOut) > 10

\* what a segment contributes to the output, by body
RECURSIVE ExpectedBodies(_)
ExpectedBodies(segs) ==
    IF segs = <<>> THEN <<>>
    ELSE LET seg == Head(segs) IN
         (IF IsEnvelopeSeg(seg) THEN [k \in 1..Len(seg.items) |-> seg.items[k].body]
          ELSE IF IsGenuineSeg(seg) THEN <<seg.body>>
          ELSE <<>>) \o ExpectedBodies(Tail(segs))

Envelopes == { j \in 1..Len(values) : IsEnvelopeSeg(values[j]) }

EnvelopesWithFC == { j \in Envelopes : values[j].hasFC }

Last(S) == CHOOSE j \in S : \A k \in S : k <= j

\* the part of C2 about the output and the index
C2_Unwrapped ==
    /\ [k \in 1..Len(output) |-> output[k].body] = ExpectedBodies(values)
    /\ \A j \in Envelopes : \A k \in 1..Len(output) : output[k].body # values[j].body
    /\ \A k \in 1..Len(output) :
          ~IsGenuineNode(output[k]) =>
              \E j \in Envelopes : \E m \in 1..Len(values[j].items) :
                  output[k] = values[j].items[m]
    /\ index = Len(SelectSeq(values, IsGenuineSeg))

\* C2 (as amended): after a Read that succeeded, no envelope is in the
\* output, its items stand in its place in item order, it took no index, and
\* the reader's WrappingKind and WrappingApiVersion are those of the last
\* envelope of the stream, FunctionConfig that of the last envelope that has
\* a functionConfig; a List or ResourceList without items is a genuine
\* document.
C2_EnvelopeLastWins ==
    (pc = "done" /\ err = "nil") =>
        /\ C2_Unwrapped
        /\ Envelopes # {} =>
            /\ r.WrappingKind = values[Last(Envelopes)].kind
            /\ r.WrappingApiVersion = values[Last(Envelopes)].apiVersion
        /\ EnvelopesWithFC # {} =>
            r.FunctionConfig = values[Last(EnvelopesWithFC)].fc

C2_Witness ==
    /\ pc = "done" /\ err = "nil"
    /\ Cardinality(Envelopes) >= 2
    /\ values[Last(Envelopes)].kind = "List"
    /\ \E j \in Envelopes : values[j].kind = "ResourceList" /\ values[j].hasFC
    /\ \E j \in 1..Len(values) : values[j].kind = "List" /\ IsGenuineSeg(values[j])

\* C2 as stated: the reader's WrappingKind, WrappingApiVersion and
\* FunctionConfig are those of every envelope of the stream.
C2_EnvelopeOriginal ==
    (pc = "done" /\ err = "nil") =>
        /\ C2_Unwrapped
        /\ \A j \in Envelopes :
            /\ r.WrappingKind = values[j].kind
            /\ r.WrappingApiVersion = values[j].apiVersion
            /\ values[j].hasFC => r.FunctionConfig = values[j].fc

\* ------------------------------------------------------------------------
\* Properties of LocalPackageReadWriter.Write
\* ------------------------------------------------------------------------
PathOf(n) ==
    IF PathAnnotation \in DOMAIN n.annotations THEN n.annotations[PathAnnotation]
    ELSE <<>>

PathsOf(ns) == { PathOf(ns[k]) : k \in 1..Len(ns) }

CarriedBy(ns, p) == { k \in 1..Len(ns) : PathOf(ns[k]) = p }

OldSet == PathsOf(held.nodes)

NewSet == PathsOf(nodes)

InPackage(paths) == { Root \o p : p \in paths }

\* Write is about to return nil: its removal loop has nothing left
WriteSucceeded == wpc = "remove" /\ deleteFiles = {}

\* C3: when a Write that follows a Read is through without error, the files
\* that were there when it began and are gone are exactly those of the old
\* set (paths of the documents the Read returned) that are not in the new
\* set (paths of the documents written), and every file of the new set is
\* there.
C3_RemovedExactly ==
    (WriteSucceeded /\ held.done /\ held.err = "nil") =>
        /\ before \ DOMAIN fs = InPackage(OldSet \ NewSet)
        /\ InPackage(NewSet) \subseteq DOMAIN fs

C3_Witness ==
    /\ WriteSucceeded /\ held.done /\ held.err = "nil"
    /\ \E p \in OldSet \ NewSet : Root \o p \in before \ DOMAIN fs
    /\ \E p \in OldSet \cap NewSet :
        /\ Cardinality(CarriedBy(nodes, p)) < Cardinality(CarriedBy(held.nodes, p))
        /\ Root \o p \in DOMAIN fs

\* C4: a Write that returns nil leaves the tracked file set equal to the
\* paths of the documents it was given, and a Read that returns nil leaves
\* it equal to the paths of the documents it returned.
C4_TrackedRecomputed ==
    [][ /\ (wpc = "remove" /\ wpc' = "idle" /\ werr' = "nil") =>
               rw'.files = PathsOf(nodes)
        /\ (calls' = calls + 1 /\ lastOp' = "Read" /\ held'.err = "nil") =>
               rw'.files = PathsOf(held'.nodes) ]_vars

BodiesIn(segs) == { segs[k].body : k \in 1..Len(segs) }

\* the package write for ns has been done: every node has the annotations
\* the writer needs and every file of the new set holds the documents of ns
\* that carry its path
Written(ns, tree) ==
    /\ \A k \in 1..Len(ns) :
        /\ ns[k].type = "doc"
        /\ {IndexAnnotation, PathAnnotation} \subseteq DOMAIN ns[k].annotations
    /\ \A p \in PathsOf(ns) :
        /\ Root \o p \in DOMAIN tree
        /\ BodiesIn(tree[Root \o p]) = { ns[k].body : k \in CarriedBy(ns, p) }

\* C5: a step of Write removes a file only in the removal loop, after the
\* package write for the new set is done; a Write that returns the error of
\* getFiles or of the package writer has removed nothing; a removal that
\* fails ends Write at once with that error, and leaves the files as they are.
C5_RemoveAfterWrite ==
    [][ /\ (DOMAIN fs \ DOMAIN fs' # {}) =>
               (wpc = "remove" /\ Written(nodes, fs) /\ Written(nodes, fs')
                /\ Cardinality(DOMAIN fs \ DOMAIN fs') = 1)
        /\ (wpc = "idle" /\ calls' = calls + 1 /\ werr' \in {"getFiles", "write"}) =>
               (wpc' = "idle" /\ DOMAIN fs \subseteq DOMAIN fs')
        /\ (wpc = "remove" /\ werr' = "remove") =>
               (wpc' = "idle" /\ fs' = fs) ]_vars

\* the documents have been written and a file removed, and a removal that
\* cannot but fail is left
C5_Witness ==
    /\ wpc = "remove"
    /\ nodes # <<>> /\ Written(nodes, fs)
    /\ before \ DOMAIN fs # {}
    /\ \E f \in deleteFiles : f # <<>> /\ Root \o f \notin DOMAIN fs

\* C9: while NoDeleteFiles is true no step removes a file.
C9_NoDeleteFiles ==
    [][ rw.NoDeleteFiles => DOMAIN fs \subseteq DOMAIN fs' ]_vars

\* ------------------------------------------------------------------------
\* Properties of LocalPackageReader.Read and LocalPackageReadWriter.Read
\* ------------------------------------------------------------------------
\* the bodies of the documents a file holds, items of envelopes included
BodiesOf(segs) ==
    { segs[k].body : k \in { j \in 1..Len(segs) : IsGenuineSeg(segs[j]) } }
    \cup UNION { { segs[k].items[m].body : m \in 1..Len(segs[k].items) } :
                 k \in { j \in 1..Len(segs) : IsEnvelopeSeg(segs[j]) } }

FileOf(body) == CHOOSE p \in DOMAIN fs : body \in BodiesOf(fs[p])

IsStrictPrefix(d, p) == Len(d) < Len(p) /\ SubSeq(p, 1, Len(d)) = d

\* p lies in or below a directory, other than the root, that holds the marker
InSubpackage(p) ==
    \E d \in Dirs \ {Root} :
        IsStrictPrefix(d, p) /\ d \o <<rw.PackageFileName>> \in DOMAIN fs

InScope(p) ==
    IF rw.MatchFilesGlob = <<>> THEN Ext(p[Len(p)]) \in {"yaml", "yml"} ELSE TRUE

Contributes(res, p) ==
    \E k \in 1..Len(res.nodes) : res.nodes[k].body \in BodiesOf(fs[p])

\* C6: with PackageFileName set, a file that holds documents contributes to
\* what LocalPackageReader.Read returns if and only if its name matches and,
\* unless IncludeSubpackages is set, no directory from below the root down
\* to the file's own holds the marker; a marker in the root prunes nothing.
C6_SubpackagePruned ==
    (operand.done /\ operand.err = "nil" /\ rw.PackageFileName # "") =>
        \A p \in DOMAIN fs :
            BodiesOf(fs[p]) # {} =>
                (Contributes(operand, p) <=>
                    (InScope(p) /\ (rw.IncludeSubpackages \/ ~InSubpackage(p))))

C6_Witness ==
    /\ operand.done /\ operand.err = "nil"
    /\ rw.PackageFileName # "" /\ ~rw.IncludeSubpackages
    /\ {Marker(Root), Marker(Sub), FileA, FileC, FileE} \subseteq DOMAIN fs
    /\ Marker(Deep) \notin DOMAIN fs
    /\ Contributes(operand, FileA)
    /\ ~Contributes(operand, FileC) /\ ~Contributes(operand, FileE)

C6_WitnessIncluded ==
    /\ operand.done /\ operand.err = "nil"
    /\ rw.PackageFileName # "" /\ rw.IncludeSubpackages
    /\ {Marker(Sub), FileC, FileE} \subseteq DOMAIN fs
    /\ Contributes(operand, FileC) /\ Contributes(operand, FileE)

\* C7: with reader annotations on, every node LocalPackageReader.Read
\* returns, items of envelopes included, carries the index annotation (set by
\* ByteReader.Read), the path annotation with the path of its file relative
\* to the root, and the package annotation with that file's directory.
C7_EveryNodeAnnotated ==
    (operand.done /\ operand.err = "nil" /\ ~rw.OmitReaderAnnotations) =>
        \A k \in 1..Len(operand.nodes) :
            LET n == operand.nodes[k]
                rel == SubSeq(FileOf(n.body), Len(Root) + 1, Len(FileOf(n.body)))
            IN /\ IndexAnnotation \in DOMAIN n.annotations
               /\ PathAnnotation \in DOMAIN n.annotations
               /\ n.annotations[PathAnnotation] = rel
               /\ PackageAnnotation \in DOMAIN n.annotations
               /\ n.annotations[PackageAnnotation] =
                      (IF Len(rel) = 1 THEN <<".">> ELSE SubSeq(rel, 1, Len(rel) - 1))

NodeBodies(ns) == [k \in 1..Len(ns) |-> ns[k].body]

\* C8: LocalPackageReadWriter.Read returns the documents that a
\* LocalPackageReader with the same settings returns; with PackageFileName
\* set and IncludeSubpackages false, none of them, and no tracked path, is
\* from a subdirectory that holds the marker.
C8_ReadWriterReadsLikeReader ==
    (held.done /\ operand.done) =>
        /\ (held.err = "nil") <=> (operand.err = "nil")
        /\ NodeBodies(held.nodes) = NodeBodies(operand.nodes)
        /\ (rw.PackageFileName # "" /\ ~rw.IncludeSubpackages) =>
            /\ \A p \in DOMAIN fs : InSubpackage(p) => ~Contributes(held, p)
            /\ \A f \in rw.files : ~InSubpackage(Root \o f)

\* ------------------------------------------------------------------------
\* Properties of ValueReplacer.Filter
\* ------------------------------------------------------------------------
OccursAt(str, m, p) ==
    p + Len(m) - 1 <= Len(str) /\ SubSeq(str, p, p + Len(m) - 1) = m

\* the positions of the non-overlapping occurrences of m in str, taken from
\* the left: an occurrence counts unless an earlier one that counts covers it
Occurrences(str, m) ==
    CHOOSE P \in SUBSET (1..Len(str)) :
        \A p \in 1..Len(str) :
            p \in P <=> (OccursAt(str, m, p)
                          /\ \A q \in P : q < p => q + Len(m) <= p)

FirstOf(P, n) == { p \in P : Cardinality({ q \in P : q < p }) < n }

\* str with the occurrences of m at the positions P replaced by repl
RECURSIVE Spliced(_, _, _, _, _)
Spliced(str, m, repl, P, pos) ==
    IF pos > Len(str) THEN <<>>
    ELSE IF pos \in P THEN repl \o Spliced(str, m, repl, P, pos + Len(m))
    ELSE <<str[pos]>> \o Spliced(str, m, repl, P, pos + 1)

\* C10: with StringMatch set (whatever RegexMatch is) and Count >= 0 the
\* scalar becomes its value with the occurrences of StringMatch replaced by
\* Replace, all of them for Count 0, the first Count non-overlapping ones
\* from the left otherwise, and the node is returned; with neither
\* StringMatch nor RegexMatch the filter fails, returns no node and leaves
\* the value as it was.
C10_ValueReplacer ==
    ret.done =>
        /\ (s.StringMatch # <<>> /\ s.Count >= 0) =>
            LET all == Occurrences(input, s.StringMatch)
                P == IF s.Count = 0 THEN all ELSE FirstOf(all, s.Count)
            IN /\ object = Spliced(input, s.StringMatch, s.Replace, P, 1)
               /\ ret.node = "object" /\ ret.err = "nil"
        /\ (s.StringMatch = <<>> /\ s.RegexMatch = <<>>) =>
            /\ ret.err = "ValueReplacer missing StringMatch and RegexMatch"
            /\ ret.node = "nil"
            /\ object = input

\* "abab" with StringMatch "ab", Replace "ca" and Count 0 has become "caca"
C10_Witness ==
    /\ ret.done
    /\ input = <<"a", "b", "a", "b">>
    /\ s.StringMatch = <<"a", "b">> /\ s.Replace = <<"c", "a">> /\ s.Count = 0
    /\ s.RegexMatch # <<>>
    /\ object = <<"c", "a", "c", "a">>

\* of the overlapping occurrences of "aa" in "aaa" the first one is replaced
C10_WitnessCount ==
    /\ ret.done
    /\ input = <<"a", "a", "a", "a">>
    /\ s.StringMatch = <<"a", "a">> /\ s.Replace = <<"c">> /\ s.Count = 1
    /\ object = <<"c", "a", "a">>

C10_WitnessMissing ==
    /\ ret.done
    /\ s.StringMatch = <<>> /\ s.RegexMatch = <<>>
    /\ input # <<>>

\* ------------------------------------------------------------------------
\* Properties of PrefixSetter.Filter and SuffixSetter.Filter
\* ------------------------------------------------------------------------
\* C11: after one call of PrefixSetter.Filter the scalar starts with the
\* configured value and is either the value it had or the configured value
\* followed by it (SuffixSetter.Filter: ends with, followed by the
\* configured value), the input node is returned without error, and every
\* further call with the same configured value leaves the scalar as the
\* first call left it.
C11_SettersIdempotent ==
    Len(applied) >= 1 =>
        /\ s.Kind = "PrefixSetter" =>
            /\ HasPrefix(applied[1], s.Value)
            /\ applied[1] \in { input, s.Value \o input }
        /\ s.Kind = "SuffixSetter" =>
            /\ HasSuffix(applied[1], s.Value)
            /\ applied[1] \in { input, input \o s.Value }
        /\ ret.done /\ ret.node = "object" /\ ret.err = "nil"
        /\ \A k \in 1..Len(applied) : applied[k] = applied[1]
        /\ object = applied[1]

\* "ab" is a prefix of the configured "aba" but does not start with it:
\* the first call made it "abaab" and the second call left it so
C11_Witness ==
    /\ Len(applied) = 2
    /\ s.Kind = "PrefixSetter" /\ s.Value = <<"a", "b", "a">>
    /\ input = <<"a", "b">>
    /\ object = <<"a", "b", "a", "a", "b">>

\* "ab" with the suffix "ba" becomes "abba", the shared "b" is not merged
C11_WitnessSuffix ==
    /\ Len(applied) = 2
    /\ s.Kind = "SuffixSetter" /\ s.Value = <<"b", "a">>
    /\ input = <<"a", "b">>
    /\ object = <<"a", "b", "b", "a">>

\* the empty configured value and a scalar that already has the prefix
C11_WitnessUnchanged ==
    /\ Len(applied) = 2
    /\ s.Kind = "PrefixSetter" /\ s.Value \in { <<>>, <<"a">> }
    /\ input = <<"a", "b">>
    /\ object = input

====
